---- MODULE Spec2Model ----
(***************************************************************************)
(* A model of fetch_races.py (RunSignUpRaceFetcher): the paginated fetch   *)
(* over the target states, the per-race transformation with its image      *)
(* lookup, the difficulty classification, the date filter and the JSON     *)
(* writer.                                                                 *)
(*                                                                         *)
(* Python strings the code inspects (distance labels, event names, dates,  *)
(* identifiers) are sequences of one-character strings, so that lower(),   *)
(* the substring test `x in s`, str() and strptime() are computed and not  *)
(* assumed.  Python's None, where a JSON null can stand for a string, is   *)
(* the one-element sequence None, which is no sequence of characters.      *)
(* A dict is a function on its keys: a missing key is missing from DOMAIN. *)
(***************************************************************************)
EXTENDS Integers, Sequences, FiniteSets, TLC

VARIABLES
    pc,             \* where the run is: see the actions
    unsplash_key,   \* self.unsplash_key, read from the environment by __init__
    stateIdx,       \* index into target_states of the state being fetched
    page,           \* the page counter of fetch_all_races
    pending,        \* the race items of the current page not yet transformed
    all_races,      \* the accumulator of fetch_all_races
    future_races,   \* what filter_future_races returned
    today,          \* date.today() as filter_future_races read it
    requests,       \* history: every page requested, with how it answered
    lastCall,       \* the last call of transform_race_data and what it returned
    unsplash_calls, \* history: number of requests sent to the photo search
    file,           \* races.json
    log,            \* the kinds of messages logged at ERROR or WARNING
    arg,            \* argument of a function applied on its own
    ret             \* its result

vars == <<pc, unsplash_key, stateIdx, page, pending, all_races, future_races,
          today, requests, lastCall, unsplash_calls, file, log, arg, ret>>

-----------------------------------------------------------------------------
(* Bounds of the model                                                     *)

\* distance labels are built from at most this many pieces
MaxParts == 2

\* the race search holds at most this many pages of races for a state
MaxPage == 1

\* a race handed to transform_race_data on its own has at most this many events
MaxEvents == 2

\* filter_future_races on its own is handed at most this many records
MaxRecords == 3

-----------------------------------------------------------------------------
(* Strings                                                                 *)

None == <<"None">>

UpperCase == <<"A","B","C","D","E","F","G","H","I","J","K","L","M",
               "N","O","P","Q","R","S","T","U","V","W","X","Y","Z">>
LowerCase == <<"a","b","c","d","e","f","g","h","i","j","k","l","m",
               "n","o","p","q","r","s","t","u","v","w","x","y","z">>

\* str.lower() on one character
LowerChar(c) ==
    IF \E i \in 1..Len(UpperCase) : UpperCase[i] = c
    THEN LowerCase[CHOOSE i \in 1..Len(UpperCase) : UpperCase[i] = c]
    ELSE c

\* str.lower()
lower(s) == [i \in 1..Len(s) |-> LowerChar(s[i])]

\* Python's `x in s` for strings: x occurs in s as a contiguous substring
In(x, s) ==
    \E i \in 0..(Len(s) - Len(x)) :
        \A j \in 1..Len(x) : s[i + j] = x[j]

\* any(x in s for x in tokens), tokens a list
AnyIn(tokens, s) == \E k \in 1..Len(tokens) : In(tokens[k], s)

-----------------------------------------------------------------------------
(* determine_difficulty                                                    *)

\* a slip: the rule for 'Hard' is tried before the rule for 'Easy'
determine_difficulty_hard_first(distance) ==
    LET distance_lower == lower(distance) IN
    IF AnyIn(<< <<"1","k">>, <<"1"," ","m","i","l","e">>, <<"1","m","i">>,
                <<"f","u","n"," ","r","u","n">>, <<"k","i","d","s">> >>,
             distance_lower)
    THEN "Beginner"
    ELSE IF AnyIn(<< <<"h","a","l","f"," ","m","a","r","a","t","h","o","n">>,
                     <<"1","3",".","1">>, <<"1","5","k">> >>, distance_lower)
    THEN "Hard"
    ELSE IF AnyIn(<< <<"m","a","r","a","t","h","o","n">>, <<"2","6",".","2">>,
                     <<"f","u","l","l">> >>, distance_lower)
    THEN "Expert"
    ELSE IF AnyIn(<< <<"u","l","t","r","a">>, <<"5","0","k">>,
                     <<"5","0"," ","m","i","l","e">>, <<"1","0","0","k">>,
                     <<"1","0","0"," ","m","i","l","e">> >>, distance_lower)
    THEN "Extreme"
    ELSE IF AnyIn(<< <<"5","k">>, <<"3",".","1">>, <<"3"," ","m","i","l","e">> >>,
                  distance_lower)
    THEN "Easy"
    ELSE "Moderate"

\* a slip: the label is matched as it is written, without lower()
determine_difficulty_cased(distance) ==
    LET distance_lower == distance IN
    IF AnyIn(<< <<"1","k">>, <<"1"," ","m","i","l","e">>, <<"1","m","i">>,
                <<"f","u","n"," ","r","u","n">>, <<"k","i","d","s">> >>,
             distance_lower)
    THEN "Beginner"
    ELSE IF AnyIn(<< <<"5","k">>, <<"3",".","1">>, <<"3"," ","m","i","l","e">> >>,
                  distance_lower)
    THEN "Easy"
    ELSE IF AnyIn(<< <<"1","0","k">>, <<"6",".","2">>, <<"6"," ","m","i","l","e">> >>,
                  distance_lower)
    THEN "Moderate"
    ELSE IF AnyIn(<< <<"h","a","l","f"," ","m","a","r","a","t","h","o","n">>,
                     <<"1","3",".","1">>, <<"1","5","k">> >>, distance_lower)
    THEN "Hard"
    ELSE IF AnyIn(<< <<"m","a","r","a","t","h","o","n">>, <<"2","6",".","2">>,
                     <<"f","u","l","l">> >>, distance_lower)
    THEN "Expert"
    ELSE IF AnyIn(<< <<"u","l","t","r","a">>, <<"5","0","k">>,
                     <<"5","0"," ","m","i","l","e">>, <<"1","0","0","k">>,
                     <<"1","0","0"," ","m","i","l","e">> >>, distance_lower)
    THEN "Extreme"
    ELSE "Moderate"

\* determine_difficulty(distance), distance a string; on None the call raises
\* (see determine_difficulty_raises)
determine_difficulty(distance) ==
    LET distance_lower == lower(distance) IN
    IF AnyIn(<< <<"1","k">>, <<"1"," ","m","i","l","e">>, <<"1","m","i">>,
                <<"f","u","n"," ","r","u","n">>, <<"k","i","d","s">> >>,
             distance_lower)
    THEN "Beginner"
    ELSE IF AnyIn(<< <<"5","k">>, <<"3",".","1">>, <<"3"," ","m","i","l","e">> >>,
                  distance_lower)
    THEN "Easy"
    ELSE IF AnyIn(<< <<"1","0","k">>, <<"6",".","2">>, <<"6"," ","m","i","l","e">> >>,
                  distance_lower)
    THEN "Moderate"
    ELSE IF AnyIn(<< <<"h","a","l","f"," ","m","a","r","a","t","h","o","n">>,
                     <<"1","3",".","1">>, <<"1","5","k">> >>, distance_lower)
    THEN "Hard"
    ELSE IF AnyIn(<< <<"m","a","r","a","t","h","o","n">>, <<"2","6",".","2">>,
                     <<"f","u","l","l">> >>, distance_lower)
    THEN "Expert"
    ELSE IF AnyIn(<< <<"u","l","t","r","a">>, <<"5","0","k">>,
                     <<"5","0"," ","m","i","l","e">>, <<"1","0","0","k">>,
                     <<"1","0","0"," ","m","i","l","e">> >>, distance_lower)
    THEN "Extreme"
    ELSE "Moderate"

\* distance.lower() raises AttributeError when the distance is None
determine_difficulty_raises(distance) == distance = None

-----------------------------------------------------------------------------
(* Dictionaries and truth values                                           *)

\* dict.get(key, default)
Get(d, key, default) == IF key \in DOMAIN d THEN d[key] ELSE default

\* bool(v) of a string or None
Truthy(v) == v # None /\ v # <<>>

Digits == <<"0","1","2","3","4","5","6","7","8","9">>

\* str(n) of an int, as the f-strings and str() format it
RECURSIVE Str(_)
Str(n) ==
    IF n < 0 THEN <<"-">> \o Str(0 - n)
    ELSE IF n < 10 THEN <<Digits[n + 1]>>
    ELSE Str(n \div 10) \o <<Digits[(n % 10) + 1]>>

-----------------------------------------------------------------------------
(* get_city_image                                                          *)

target_states == <<"WA", "OR", "CA">>

state_names == [s \in {"WA", "OR", "CA"} |->
                  CASE s = "WA" -> "Washington"
                    [] s = "OR" -> "Oregon"
                    [] s = "CA" -> "California"]

FallbackImage == "https://images.unsplash.com/photo-1449824913935-59a10b8d2000?w=800&h=600&fit=crop&crop=center"

\* What the photo search can answer to one request:
\*   request_error  session.get raises (network error, timeout)
\*   http_error     raise_for_status raises
\*   bad_json       response.json() raises
\*   no_results     the JSON object has no 'results' (data.get gives None)
\*   empty_results  'results' is []
\*   malformed      'results'[0] lacks 'urls' or 'regular' (KeyError)
\*   ok             'results'[0]['urls']['regular'] is url
PhotoUrls == {"https://images.unsplash.com/photo-A?w=1080",
              "https://images.unsplash.com/photo-B?w=1080"}

PhotoResponses ==
    [kind : {"request_error", "http_error", "bad_json", "no_results",
             "empty_results", "malformed"}, url : {""}]
    \cup [kind : {"ok"}, url : PhotoUrls]

\* a slip: an empty result set is indexed without the `if data.get('results')`
\* test and nothing catches the error
get_city_image_unguarded(city, state, key, response) ==
    IF ~Truthy(key)
    THEN [url |-> FallbackImage, requested |-> FALSE, warned |-> FALSE, raised |-> FALSE]
    ELSE IF state \notin DOMAIN state_names
    THEN [url |-> FallbackImage, requested |-> FALSE, warned |-> TRUE, raised |-> FALSE]
    ELSE IF response.kind \in {"request_error", "http_error", "bad_json", "malformed"}
    THEN [url |-> FallbackImage, requested |-> TRUE, warned |-> TRUE, raised |-> FALSE]
    ELSE IF response.kind \in {"no_results", "empty_results"}
    THEN [url |-> "", requested |-> TRUE, warned |-> FALSE, raised |-> TRUE]
    ELSE [url |-> response.url, requested |-> TRUE, warned |-> FALSE, raised |-> FALSE]

\* get_city_image(city, state) with self.unsplash_key = key, when the photo
\* search answers `response` to the request (if one is sent).
\*   url        the value returned
\*   requested  session.get was called
\*   warned     the except branch logged a warning
\*   raised     an exception left the call
get_city_image(city, state, key, response) ==
    IF ~Truthy(key)
    THEN [url |-> FallbackImage, requested |-> FALSE, warned |-> FALSE, raised |-> FALSE]
    \* try: state_names[state] raises KeyError before the request
    ELSE IF state \notin DOMAIN state_names
    THEN [url |-> FallbackImage, requested |-> FALSE, warned |-> TRUE, raised |-> FALSE]
    \* session.get, raise_for_status, response.json or the indexing raised
    ELSE IF response.kind \in {"request_error", "http_error", "bad_json", "malformed"}
    THEN [url |-> FallbackImage, requested |-> TRUE, warned |-> TRUE, raised |-> FALSE]
    \* data.get('results') is falsy: fall through to the fallback
    ELSE IF response.kind \in {"no_results", "empty_results"}
    THEN [url |-> FallbackImage, requested |-> TRUE, warned |-> FALSE, raised |-> FALSE]
    ELSE [url |-> response.url, requested |-> TRUE, warned |-> FALSE, raised |-> FALSE]

-----------------------------------------------------------------------------
(* has_kids_race                                                           *)

KidsKeywords == << <<"k","i","d","s">>, <<"c","h","i","l","d","r","e","n">>,
                   <<"f","a","m","i","l","y">>, <<"y","o","u","t","h">>,
                   <<"j","u","n","i","o","r">> >>

\* event.get('name', '') or ''
EventName(event) ==
    LET n == Get(event, "name", <<>>) IN IF Truthy(n) THEN n ELSE <<>>

\* the loop of has_kids_race from event k on
RECURSIVE has_kids_race_from(_, _)
has_kids_race_from(events, k) ==
    IF k > Len(events) THEN FALSE
    ELSE IF AnyIn(KidsKeywords, lower(EventName(events[k]))) THEN TRUE
    ELSE has_kids_race_from(events, k + 1)

has_kids_race(events) == has_kids_race_from(events, 1)

-----------------------------------------------------------------------------
(* transform_race_data                                                     *)

Unknown == <<"U","n","k","n","o","w","n">>
UnknownRace == <<"U","n","k","n","o","w","n"," ","R","a","c","e">>

\* the fields of the race read before the loop (lines 144-158)
RaceCity(race) ==
    LET address == Get(race, "address", <<>>) IN
    IF DOMAIN address # {} THEN Get(address, "city", Unknown) ELSE Unknown

\* a slip: the identifier of a record is the race id alone
EventRecord_race_id(race, state, image_url, events, event) ==
    LET distance == Get(event, "distance", Unknown) IN
    [id              |-> Str(Get(race, "race_id", 0)),
     name            |-> Get(race, "name", UnknownRace),
     date            |-> Get(race, "next_date", <<>>),
     city            |-> RaceCity(race),
     state           |-> state,
     distance        |-> distance,
     difficulty      |-> determine_difficulty(distance),
     description     |-> Get(race, "description", <<>>),
     imageUrl        |-> image_url,
     latitude        |-> Get(race, "latitude", 0),
     longitude       |-> Get(race, "longitude", 0),
     hasKidsRace     |-> has_kids_race(events),
     registrationUrl |-> Get(race, "url", <<>>)]

\* the dict built for one event (lines 168-182)
EventRecord(race, state, image_url, events, event) ==
    LET distance == Get(event, "distance", Unknown) IN
    [id              |-> Str(Get(race, "race_id", 0)) \o <<"_">>
                           \o Str(Get(event, "event_id", 0)),
     name            |-> Get(race, "name", UnknownRace),
     date            |-> Get(race, "next_date", <<>>),
     city            |-> RaceCity(race),
     state           |-> state,
     distance        |-> distance,
     difficulty      |-> determine_difficulty(distance),
     description     |-> Get(race, "description", <<>>),
     imageUrl        |-> image_url,
     latitude        |-> Get(race, "latitude", 0),
     longitude       |-> Get(race, "longitude", 0),
     hasKidsRace     |-> has_kids_race(events),
     registrationUrl |-> Get(race, "url", <<>>)]

\* the dict built when the race has no events (lines 188-202)
DefaultRecord(race, state, image_url) ==
    [id              |-> Str(Get(race, "race_id", 0)),
     name            |-> Get(race, "name", UnknownRace),
     date            |-> Get(race, "next_date", <<>>),
     city            |-> RaceCity(race),
     state           |-> state,
     distance        |-> Unknown,
     difficulty      |-> "Moderate",
     description     |-> Get(race, "description", <<>>),
     imageUrl        |-> image_url,
     latitude        |-> Get(race, "latitude", 0),
     longitude       |-> Get(race, "longitude", 0),
     hasKidsRace     |-> FALSE,
     registrationUrl |-> Get(race, "url", <<>>)]

\* the loop `for event in events` from event k on, transformed_races being
\* acc: an exception at event k leaves the loop with what was appended so far
RECURSIVE TransformEvents(_, _, _, _, _, _)
TransformEvents(race, state, image_url, events, k, acc) ==
    IF k > Len(events) THEN [recs |-> acc, raised |-> FALSE]
    ELSE IF determine_difficulty_raises(Get(events[k], "distance", Unknown))
    THEN [recs |-> acc, raised |-> TRUE]
    ELSE TransformEvents(race, state, image_url, events, k + 1,
             Append(acc, EventRecord(race, state, image_url, events, events[k])))

\* a slip: the block `if not events` is missing
transform_race_data_no_default(race, state, key, response) ==
    LET events == Get(race, "events", <<>>)
        image  == get_city_image(RaceCity(race), state, key, response)
        loop   == TransformEvents(race, state, image.url, events, 1, <<>>)
    IN  [recs |-> loop.recs, raised |-> loop.raised, image |-> image]

\* a slip: the flag is computed from the event of the record alone
transform_race_data_flag_per_event(race, state, key, response) ==
    LET events == Get(race, "events", <<>>)
        image  == get_city_image(RaceCity(race), state, key, response)
        loop   == TransformEvents(race, state, image.url, events, 1, <<>>)
        own    == [i \in 1..Len(loop.recs) |->
                     [loop.recs[i] EXCEPT !.hasKidsRace = has_kids_race(<<events[i]>>)]]
    IN  IF loop.raised
        THEN [recs |-> own, raised |-> TRUE, image |-> image]
        ELSE IF Len(events) = 0
        THEN [recs |-> <<DefaultRecord(race, state, image.url)>>,
              raised |-> FALSE, image |-> image]
        ELSE [recs |-> own, raised |-> FALSE, image |-> image]

\* transform_race_data(race, state) with self.unsplash_key = key, when the
\* photo search answers `response`.
\*   recs    the list returned (transformed_races)
\*   raised  the except branch was taken (and logged an error)
\*   image   the call of get_city_image (line 161)
transform_race_data(race, state, key, response) ==
    LET events == Get(race, "events", <<>>)
        image  == get_city_image(RaceCity(race), state, key, response)
        loop   == TransformEvents(race, state, image.url, events, 1, <<>>)
    IN  IF loop.raised
        THEN [recs |-> loop.recs, raised |-> TRUE, image |-> image]
        \* if not events
        ELSE IF Len(events) = 0
        THEN [recs |-> <<DefaultRecord(race, state, image.url)>>,
              raised |-> FALSE, image |-> image]
        ELSE [recs |-> loop.recs, raised |-> FALSE, image |-> image]

-----------------------------------------------------------------------------
(* filter_future_races                                                     *)

IsDigit(c) == \E i \in 1..10 : Digits[i] = c
DigitVal(c) == (CHOOSE i \in 1..10 : Digits[i] = c) - 1

\* positions of '/' in s
Slashes(s) == {i \in 1..Len(s) : s[i] = "/"}

\* the directive %m: 1[0-2] | 0[1-9] | [1-9]
MatchesMonth(m) ==
    \/ Len(m) = 2 /\ m[1] = "1" /\ m[2] \in {"0", "1", "2"}
    \/ Len(m) = 2 /\ m[1] = "0" /\ IsDigit(m[2]) /\ m[2] # "0"
    \/ Len(m) = 1 /\ IsDigit(m[1]) /\ m[1] # "0"

\* the directive %d: 3[0-1] | [1-2]\d | 0[1-9] | [1-9] | ' '[1-9]
MatchesDay(d) ==
    \/ Len(d) = 2 /\ d[1] = "3" /\ d[2] \in {"0", "1"}
    \/ Len(d) = 2 /\ d[1] \in {"1", "2"} /\ IsDigit(d[2])
    \/ Len(d) = 2 /\ d[1] \in {"0", " "} /\ IsDigit(d[2]) /\ d[2] # "0"
    \/ Len(d) = 1 /\ IsDigit(d[1]) /\ d[1] # "0"

\* the directive %Y: \d\d\d\d
MatchesYear(y) == Len(y) = 4 /\ \A i \in 1..4 : IsDigit(y[i])

\* int() of a field the directives matched (a leading space counts for nothing)
RECURSIVE IntOf(_)
IntOf(f) ==
    IF Len(f) = 0 THEN 0
    ELSE IF f[Len(f)] = " " THEN IntOf(SubSeq(f, 1, Len(f) - 1))
    ELSE 10 * IntOf(SubSeq(f, 1, Len(f) - 1)) + DigitVal(f[Len(f)])

IsLeap(y) == (y % 4 = 0 /\ y % 100 # 0) \/ y % 400 = 0

DaysInMonth(y, m) ==
    IF m = 2 THEN (IF IsLeap(y) THEN 29 ELSE 28)
    ELSE IF m \in {4, 6, 9, 11} THEN 30 ELSE 31

\* datetime.strptime(s, '%m/%d/%Y').date(): ok is FALSE where strptime raises
\* ValueError (the string does not match the format, text is left over, or the
\* fields are no date of the calendar); otherwise date is <<year, month, day>>
strptime(s) ==
    LET sl == Slashes(s) IN
    IF Cardinality(sl) < 2 THEN [ok |-> FALSE, date |-> <<0, 0, 0>>]
    ELSE
      LET i1 == CHOOSE i \in sl : \A j \in sl : i <= j
          i2 == CHOOSE i \in sl \ {i1} : \A j \in sl \ {i1} : i <= j
          m  == SubSeq(s, 1, i1 - 1)
          d  == SubSeq(s, i1 + 1, i2 - 1)
          y  == SubSeq(s, i2 + 1, Len(s))
      IN  IF ~(MatchesMonth(m) /\ MatchesDay(d) /\ MatchesYear(y))
          THEN [ok |-> FALSE, date |-> <<0, 0, 0>>]
          ELSE IF IntOf(y) < 1 \/ IntOf(d) > DaysInMonth(IntOf(y), IntOf(m))
          THEN [ok |-> FALSE, date |-> <<0, 0, 0>>]
          ELSE [ok |-> TRUE, date |-> <<IntOf(y), IntOf(m), IntOf(d)>>]

\* a >= b on dates
DateGE(a, b) ==
    \/ a[1] > b[1]
    \/ a[1] = b[1] /\ a[2] > b[2]
    \/ a[1] = b[1] /\ a[2] = b[2] /\ a[3] >= b[3]

\* the loop of filter_future_races from race k on, future_races being acc
RECURSIVE FilterFrom(_, _, _, _)
FilterFrom(races, day, k, acc) ==
    IF k > Len(races) THEN acc
    ELSE
      LET race          == races[k]
          race_date_str == Get(race, "date", <<>>)
          parsed        == strptime(race_date_str)
      IN  IF Truthy(race_date_str)
          THEN IF ~parsed.ok
               THEN FilterFrom(races, day, k + 1, Append(acc, race))  \* except ValueError
               ELSE IF DateGE(parsed.date, day)
               THEN FilterFrom(races, day, k + 1, Append(acc, race))
               ELSE FilterFrom(races, day, k + 1, acc)
          ELSE FilterFrom(races, day, k + 1, Append(acc, race))

\* a slip: a race held today is dropped (> for >=)
filter_future_races_strict(races, day) ==
    LET StrictlyLater(r) ==
            LET ds == Get(r, "date", <<>>) IN
            ~Truthy(ds) \/ ~strptime(ds).ok
              \/ (DateGE(strptime(ds).date, day) /\ strptime(ds).date # day)
    IN  SelectSeq(races, StrictlyLater)

\* filter_future_races(races) when date.today() is day
filter_future_races(races, day) == FilterFrom(races, day, 1, <<>>)

-----------------------------------------------------------------------------
(* Inputs: what the two services and the environment can hand to the run   *)

\* UNSPLASH_ACCESS_KEY: unset, set to the empty string, set
Keys == {None, <<>>, <<"k","e","y">>}

\* events as the race search returns them: a key may be missing, and a string
\* may be null
Event5k    == [event_id |-> 1, distance |-> <<"5","K">>, name |-> <<"5","K"," ","R","u","n","/","W","a","l","k">>]
EventKids  == [event_id |-> 2, distance |-> <<"1"," ","M","i","l","e">>, name |-> <<"K","i","d","s"," ","F","u","n"," ","R","u","n">>]
EventNull  == [event_id |-> 3, distance |-> None, name |-> <<"V","i","r","t","u","a","l">>]
EventNoId  == [distance |-> <<"H","a","l","f"," ","M","a","r","a","t","h","o","n">>, name |-> None]
EventBare  == [event_id |-> 1]
EventYouth == [event_id |-> 10, distance |-> <<"1","0","K">>, name |-> <<"Y","O","U","T","H"," ","1","0","K">>]

EventSamples == {Event5k, EventKids, EventNull, EventNoId, EventBare, EventYouth}

\* lists of at most n events
EventLists(n) == UNION {[1..k -> EventSamples] : k \in 0..n}

\* races without their events
RaceFull == [race_id |-> 7, name |-> <<"B","e","n","d"," ","R","u","n">>, next_date |-> <<"1","2","/","3","1","/","2","0","3","5">>,
             address |-> [street |-> <<"1"," ","M","a","i","n"," ","S","t">>, city |-> <<"B","e","n","d">>],
             description |-> <<"A"," ","r","u","n">>, url |-> <<"h","t","t","p","s",":","/","/","r","u","n","s","i","g","n","u","p",".","c","o","m","/","7">>,
             latitude |-> 44, longitude |-> -121]
RacePast == [race_id |-> 305, name |-> <<"O","l","d"," ","R","u","n">>, next_date |-> <<"0","1","/","0","1","/","2","0","0","0">>,
             address |-> [street |-> <<"2"," ","P","i","n","e"," ","S","t">>]]
RaceNoDate == [race_id |-> 12, next_date |-> None]
RaceNoId == [name |-> <<"A","n","o","n","y","m","o","u","s">>, address |-> [city |-> None]]

RaceBases == {RaceFull, RacePast, RaceNoDate, RaceNoId}

\* a race with its 'events'
WithEvents(race, events) == race @@ [events |-> events]

\* the races handed to transform_race_data on its own
RawRaces ==
    RaceBases \cup {WithEvents(b, ev) : b \in RaceBases, ev \in EventLists(MaxEvents)}

\* elements of the 'races' array: a JSON object or a JSON null
Object(d) == [type |-> "object", value |-> d]
Null == [type |-> "null"]

\* pages of races the race search answers with
PageSamples ==
    << \* a past race whose second event has no distance, wrapped in 'race',
       \* then a race without events, given bare
       << Object([race |-> WithEvents(RacePast, <<EventKids, EventNull>>)]),
          Object(RaceFull) >>,
       \* an array holding a null
       << Null >> >>

\* what fetch_races_for_state meets for one page
FetchResponses ==
    << [kind |-> "request_error"],
       [kind |-> "json_error"],
       [kind |-> "json", data |-> [error |-> <<"n","o"," ","r","a","c","e","s">>]],
       [kind |-> "json", data |-> [races |-> <<>>]] >>
    \o [i \in 1..Len(PageSamples) |-> [kind |-> "json", data |-> [races |-> PageSamples[i]]]]

\* the answers of the photo search met during a run
RunPhotoResponses ==
    {r \in PhotoResponses :
        r.kind = "request_error" \/ r.url = "https://images.unsplash.com/photo-A?w=1080"}

\* date.today()
Todays == {<<2026, 11, 3>>, <<2024, 2, 29>>}

\* the 'date' of a record
DateSamples ==
    {<<>>, None, <<"n","o","t","-","a","-","d","a","t","e">>, <<"0","1","/","0","1","/","2","0","0","0">>, <<"1","/"," ","1","/","2","0","0","0">>, <<"1","1","/","0","3","/","2","0","2","6">>,
     <<"1","1","/","3","/","2","0","2","6">>, <<"1","1","/","0","2","/","2","0","2","6">>, <<"0","2","/","2","9","/","2","0","2","4">>, <<"0","2","/","3","0","/","2","0","2","4">>,
     <<"1","3","/","0","1","/","2","0","3","5">>, <<"1","2","/","3","1","/","2","0","3","5">>, <<"1","2","/","3","1","/","2","0","3","5"," ">>, <<"0","1","/","0","1","/","0","0","0","0">>}

\* records handed to filter_future_races on its own: a record without 'date'
\* and records with one
RecordSamples ==
    {[id |-> <<"1">>]} \cup {[id |-> <<"2">>, date |-> d] : d \in DateSamples}

RecordLists(n) == UNION {[1..k -> RecordSamples] : k \in 0..n}

\* cities and states handed to get_city_image on its own
Cities == {<<"B","e","n","d">>, Unknown, None}
StateCodes == {"WA", "OR", "CA", "NV"}

\* distance labels: the tokens of the rules, some of them in capitals, and
\* what can stand between them
LabelPieces ==
    << <<"1","k">>, <<"1"," ","m","i","l","e">>, <<"1","m","i">>, <<"f","u","n"," ","r","u","n">>, <<"k","i","d","s">>,
       <<"5","k">>, <<"3",".","1">>, <<"3"," ","m","i","l","e">>,
       <<"1","0","k">>, <<"6",".","2">>, <<"6"," ","m","i","l","e">>,
       <<"h","a","l","f"," ","m","a","r","a","t","h","o","n">>, <<"1","3",".","1">>, <<"1","5","k">>,
       <<"m","a","r","a","t","h","o","n">>, <<"2","6",".","2">>, <<"f","u","l","l">>,
       <<"u","l","t","r","a">>, <<"5","0","k">>, <<"5","0"," ","m","i","l","e">>, <<"1","0","0","k">>, <<"1","0","0"," ","m","i","l","e">>,
       <<"K","i","d","s">>, <<"5","K">>, <<"U","L","T","R","A">>, <<"H","a","l","f">>, <<" ">>, <<"1">>, <<"2">>, <<"K">> >>

RECURSIVE Concat(_)
Concat(parts) ==
    IF Len(parts) = 0 THEN <<>> ELSE Head(parts) \o Concat(Tail(parts))

Labels ==
    {Concat([i \in 1..Len(ix) |-> LabelPieces[ix[i]]]) :
        ix \in UNION {[1..k -> 1..Len(LabelPieces)] : k \in 0..MaxParts}}
    \cup {<<"K","i","d","s"," ","1","K"," ","/"," ","5","K"," ","F","u","n"," ","R","u","n">>, Unknown, <<"T","r","a","i","l"," ","R","a","c","e">>}

-----------------------------------------------------------------------------
(* The run: RunSignUpRaceFetcher().run()                                   *)

NoCall == [called |-> FALSE]

\* __init__, then run() up to the first request of fetch_all_races
Init ==
    /\ pc = "fetch"
    /\ unsplash_key \in Keys
    /\ stateIdx = 1
    /\ page = 1
    /\ pending = <<>>
    /\ all_races = <<>>
    /\ future_races = <<>>
    /\ today = <<0, 0, 0>>
    /\ requests = <<>>
    /\ lastCall = NoCall
    /\ unsplash_calls = 0
    /\ file = [state |-> "old", content |-> <<>>]
    /\ log = IF Truthy(unsplash_key) THEN {} ELSE {"no_unsplash_key"}
    /\ arg = <<>>
    /\ ret = ""

\* lines 242-247: the page ends the pagination of the state
EndsPagination(resp) ==
    IF resp.kind # "json" THEN TRUE                       \* not data
    ELSE IF "races" \notin DOMAIN resp.data THEN TRUE     \* 'races' not in data
    ELSE Len(resp.data.races) = 0                         \* not races

\* a slip: the page counter is not advanced after a page of races
NextPage_stuck(p) == p

\* page += 1
NextPage(p) == p + 1

\* One turn of `while True` up to the for loop: the page is requested; a page
\* without races ends the state (break) and the for loop over target_states
\* goes on, or, after the last state, fetch_all_races goes on to the filter.
FetchPage ==
    /\ pc = "fetch"
    /\ \E n \in 1..Len(FetchResponses) :
         LET resp == FetchResponses[n] IN
         /\ (page > MaxPage => EndsPagination(resp))
         /\ requests' = Append(requests,
                [state |-> target_states[stateIdx], page |-> page,
                 races |-> ~EndsPagination(resp)])
         /\ log' = IF resp.kind = "json" THEN log ELSE log \cup {"fetch_error"}
         /\ IF EndsPagination(resp)
            THEN /\ pending' = <<>>
                 /\ IF stateIdx < Len(target_states)
                    THEN stateIdx' = stateIdx + 1 /\ page' = 1 /\ pc' = "fetch"
                    ELSE UNCHANGED <<stateIdx, page>> /\ pc' = "filter"
            ELSE /\ pending' = resp.data.races
                 /\ pc' = "transform"
                 /\ UNCHANGED <<stateIdx, page>>
    /\ UNCHANGED <<unsplash_key, all_races, future_races, today, lastCall,
                   unsplash_calls, file, arg, ret>>

\* what a call of transform_race_data leaves behind
CallRecord(race, state, r) ==
    [called |-> TRUE, race |-> race, state |-> state, recs |-> r.recs,
     raised |-> r.raised, image |-> r.image]

CallLog(r) ==
    (IF r.raised THEN {"transform_error"} ELSE {})
    \cup (IF r.image.warned THEN {"image_warning"} ELSE {})

\* One turn of `for race_item in races` (lines 251-255), and after the last
\* item page += 1 and the sleep.  race_item.get on a null raises
\* AttributeError, which nothing in fetch_all_races catches: run() logs it and
\* raises it again.
TransformRace ==
    /\ pc = "transform"
    /\ LET race_item == Head(pending) IN
       IF race_item.type = "null"
       THEN /\ pc' = "raised"
            /\ log' = log \cup {"run_failed"}
            /\ UNCHANGED <<pending, all_races, lastCall, unsplash_calls, page>>
       ELSE \E response \in RunPhotoResponses :
              LET race  == Get(race_item.value, "race", race_item.value)
                  state == target_states[stateIdx]
                  r     == transform_race_data(race, state, unsplash_key, response)
              IN  /\ all_races' = all_races \o r.recs
                  /\ lastCall' = CallRecord(race, state, r)
                  /\ unsplash_calls' = unsplash_calls + (IF r.image.requested THEN 1 ELSE 0)
                  /\ log' = log \cup CallLog(r)
                  /\ pending' = Tail(pending)
                  /\ IF Len(pending) = 1
                     THEN page' = NextPage(page) /\ pc' = "fetch"
                     ELSE page' = page /\ pc' = "transform"
    /\ UNCHANGED <<unsplash_key, stateIdx, future_races, today, requests, file,
                   arg, ret>>

\* lines 261-266: the filter, and fetch_all_races returns future_races
FilterRaces ==
    /\ pc = "filter"
    /\ \E day \in Todays :
         /\ today' = day
         /\ future_races' = filter_future_races(all_races, day)
    /\ pc' = "save"
    /\ UNCHANGED <<unsplash_key, stateIdx, page, pending, all_races, requests,
                   lastCall, unsplash_calls, file, log, arg, ret>>

\* a slip: the error of the write is logged and raised again
save_to_json_reraise(races, outcome) ==
    IF outcome = "written"
    THEN [file |-> [state |-> "written", content |-> races], logged |-> {}, raised |-> FALSE]
    ELSE IF outcome = "open_error"
    THEN [file |-> file, logged |-> {"save_error"}, raised |-> TRUE]
    ELSE [file |-> [state |-> "truncated", content |-> <<>>],
          logged |-> {"save_error"}, raised |-> TRUE]

\* save_to_json(races): open() fails and leaves the file as it was, or
\* json.dump fails in a file open() has truncated, or the list is written
save_to_json(races, outcome) ==
    IF outcome = "written"
    THEN [file |-> [state |-> "written", content |-> races], logged |-> {}, raised |-> FALSE]
    ELSE IF outcome = "open_error"
    THEN [file |-> file, logged |-> {"save_error"}, raised |-> FALSE]
    ELSE [file |-> [state |-> "truncated", content |-> <<>>],
          logged |-> {"save_error"}, raised |-> FALSE]

\* run(), lines 284-289: save_to_json, then "completed successfully", or the
\* except branch when save_to_json raised
SaveToJson ==
    /\ pc = "save"
    /\ \E outcome \in {"written", "open_error", "dump_error"} :
         LET s == save_to_json(future_races, outcome) IN
         /\ file' = s.file
         /\ IF s.raised
            THEN pc' = "raised" /\ log' = log \cup s.logged \cup {"run_failed"}
            ELSE pc' = "done" /\ log' = log \cup s.logged
    /\ UNCHANGED <<unsplash_key, stateIdx, page, pending, all_races, future_races,
                   today, requests, lastCall, unsplash_calls, arg, ret>>

Next == FetchPage \/ TransformRace \/ FilterRaces \/ SaveToJson

Spec == Init /\ [][Next]_vars

-----------------------------------------------------------------------------
(* The functions applied on their own                                      *)

Idle ==
    /\ stateIdx = 1
    /\ page = 1
    /\ pending = <<>>
    /\ future_races = <<>>
    /\ today = <<0, 0, 0>>
    /\ requests = <<>>
    /\ lastCall = NoCall
    /\ unsplash_calls = 0
    /\ file = [state |-> "old", content |-> <<>>]
    /\ log = {}
    /\ ret = ""

\* determine_difficulty(arg)
InitDifficulty ==
    /\ pc = "determine_difficulty"
    /\ arg \in Labels
    /\ unsplash_key = None
    /\ all_races = <<>>
    /\ Idle

CallDifficulty ==
    /\ pc = "determine_difficulty"
    /\ pc' = "returned"
    /\ ret' = determine_difficulty(arg)
    /\ UNCHANGED <<unsplash_key, stateIdx, page, pending, all_races, future_races,
                   today, requests, lastCall, unsplash_calls, file, log, arg>>

SpecDifficulty == InitDifficulty /\ [][CallDifficulty]_vars

\* get_city_image(arg.city, arg.state), the photo search answering arg.response
InitImage ==
    /\ pc = "get_city_image"
    /\ arg \in [city : Cities, state : StateCodes, response : PhotoResponses]
    /\ unsplash_key \in Keys
    /\ all_races = <<>>
    /\ Idle

CallImage ==
    /\ pc = "get_city_image"
    /\ LET r == get_city_image(arg.city, arg.state, unsplash_key, arg.response) IN
       /\ pc' = IF r.raised THEN "raised" ELSE "returned"
       /\ ret' = r.url
       /\ unsplash_calls' = unsplash_calls + (IF r.requested THEN 1 ELSE 0)
       /\ log' = IF r.warned THEN log \cup {"image_warning"} ELSE log
    /\ UNCHANGED <<unsplash_key, stateIdx, page, pending, all_races, future_races,
                   today, requests, lastCall, file, arg>>

SpecImage == InitImage /\ [][CallImage]_vars

\* transform_race_data(arg, target_states[stateIdx])
InitTransform ==
    /\ pc = "transform_race_data"
    /\ arg \in RawRaces
    /\ unsplash_key \in Keys
    /\ stateIdx \in 1..Len(target_states)
    /\ all_races = <<>>
    /\ page = 1
    /\ pending = <<>>
    /\ future_races = <<>>
    /\ today = <<0, 0, 0>>
    /\ requests = <<>>
    /\ lastCall = NoCall
    /\ unsplash_calls = 0
    /\ file = [state |-> "old", content |-> <<>>]
    /\ log = {}
    /\ ret = ""

CallTransform ==
    /\ pc = "transform_race_data"
    /\ \E response \in RunPhotoResponses :
         LET state == target_states[stateIdx]
             r     == transform_race_data(arg, state, unsplash_key, response)
         IN  /\ lastCall' = CallRecord(arg, state, r)
             /\ unsplash_calls' = unsplash_calls + (IF r.image.requested THEN 1 ELSE 0)
             /\ log' = log \cup CallLog(r)
    /\ pc' = "returned"
    /\ UNCHANGED <<unsplash_key, stateIdx, page, pending, all_races, future_races,
                   today, requests, file, arg, ret>>

SpecTransform == InitTransform /\ [][CallTransform]_vars

\* filter_future_races(all_races)
InitFilter ==
    /\ pc = "filter_future_races"
    /\ all_races \in RecordLists(MaxRecords)
    /\ unsplash_key = None
    /\ arg = <<>>
    /\ Idle

CallFilter ==
    /\ pc = "filter_future_races"
    /\ \E day \in Todays :
         /\ today' = day
         /\ future_races' = filter_future_races(all_races, day)
    /\ pc' = "returned"
    /\ UNCHANGED <<unsplash_key, stateIdx, page, pending, all_races, requests,
                   lastCall, unsplash_calls, file, log, arg, ret>>

SpecFilter == InitFilter /\ [][CallFilter]_vars

-----------------------------------------------------------------------------
(* Properties                                                              *)

\* the events of the race of the last call, as a list
CallEvents == Get(lastCall.race, "events", <<>>)

\* C1: a race with N > 0 events gives exactly N records, in event order, with
\* pairwise distinct identifiers "{raceId}_{eventId}".
C1_OnePerEvent ==
    (lastCall.called /\ Len(CallEvents) > 0) =>
        /\ Len(lastCall.recs) = Len(CallEvents)
        /\ \A i \in 1..Len(lastCall.recs) :
             lastCall.recs[i].id =
                 Str(Get(lastCall.race, "race_id", 0)) \o <<"_">>
                   \o Str(Get(CallEvents[i], "event_id", 0))
        /\ \A i, j \in 1..Len(lastCall.recs) :
             i # j => lastCall.recs[i].id # lastCall.recs[j].id

\* C1, amended: a race with N > 0 events gives exactly N records when no
\* exception is raised in the call and fewer than N when one is; the records
\* are in event order, record i identified "{raceId}_{eventId}" by event i (0
\* for an event without event_id); the identifiers are pairwise distinct when
\* the event ids are.
C1_OnePerEventUnlessRaised ==
    (lastCall.called /\ Len(CallEvents) > 0) =>
        /\ IF lastCall.raised
           THEN Len(lastCall.recs) < Len(CallEvents)
           ELSE Len(lastCall.recs) = Len(CallEvents)
        /\ \A i \in 1..Len(lastCall.recs) :
             /\ lastCall.recs[i].id =
                  Str(Get(lastCall.race, "race_id", 0)) \o <<"_">>
                    \o Str(Get(CallEvents[i], "event_id", 0))
             /\ lastCall.recs[i].distance = Get(CallEvents[i], "distance", Unknown)
        /\ ((\A i, j \in 1..Len(CallEvents) :
                i # j => Get(CallEvents[i], "event_id", 0)
                           # Get(CallEvents[j], "event_id", 0))
             => \A i, j \in 1..Len(lastCall.recs) :
                   i # j => lastCall.recs[i].id # lastCall.recs[j].id)

\* C1, its case: race 7 with the events 2 and 10 came back as the records
\* "7_2" and "7_10"
C1_Witness ==
    /\ lastCall.called
    /\ ~lastCall.raised
    /\ Len(CallEvents) = 2
    /\ Len(lastCall.recs) = 2
    /\ lastCall.recs[1].id = <<"7","_","2">>
    /\ lastCall.recs[2].id = <<"7","_","1","0">>

\* C2: a race with zero events gives exactly one record, identified by the
\* bare race id, with distance "Unknown" and difficulty "Moderate".
C2_DefaultRecord ==
    (lastCall.called /\ Len(CallEvents) = 0) =>
        /\ Len(lastCall.recs) = 1
        /\ lastCall.recs[1].id = Str(Get(lastCall.race, "race_id", 0))
        /\ lastCall.recs[1].distance = <<"U","n","k","n","o","w","n">>
        /\ lastCall.recs[1].difficulty = "Moderate"

\* C2, its case: race 7 was given with an empty list of events and came back
\* as the one record "7"
C2_Witness ==
    /\ lastCall.called
    /\ "events" \in DOMAIN lastCall.race
    /\ Len(CallEvents) = 0
    /\ Len(lastCall.recs) = 1
    /\ lastCall.recs[1].id = <<"7">>

\* C3: a call of transform_race_data in which an exception was raised returns
\* no record for the race, and the loop goes on to the next race of the page.
C3_RaisedGivesNothing ==
    (lastCall.called /\ lastCall.raised) =>
        /\ lastCall.recs = <<>>
        /\ (pending # <<>> => pc \in {"transform", "raised"})

\* the rules of the difficulty tiers, in their order
DifficultyRules ==
    << [tier |-> "Beginner",
        tokens |-> {<<"1","k">>, <<"1"," ","m","i","l","e">>, <<"1","m","i">>, <<"f","u","n"," ","r","u","n">>, <<"k","i","d","s">>}],
       [tier |-> "Easy", tokens |-> {<<"5","k">>, <<"3",".","1">>, <<"3"," ","m","i","l","e">>}],
       [tier |-> "Moderate", tokens |-> {<<"1","0","k">>, <<"6",".","2">>, <<"6"," ","m","i","l","e">>}],
       [tier |-> "Hard", tokens |-> {<<"h","a","l","f"," ","m","a","r","a","t","h","o","n">>, <<"1","3",".","1">>, <<"1","5","k">>}],
       [tier |-> "Expert", tokens |-> {<<"m","a","r","a","t","h","o","n">>, <<"2","6",".","2">>, <<"f","u","l","l">>}],
       [tier |-> "Extreme",
        tokens |-> {<<"u","l","t","r","a">>, <<"5","0","k">>, <<"5","0"," ","m","i","l","e">>, <<"1","0","0","k">>, <<"1","0","0"," ","m","i","l","e">>}] >>

\* the rules one of whose tokens occurs in s
RulesMatching(s) ==
    {i \in 1..Len(DifficultyRules) : \E t \in DifficultyRules[i].tokens : In(t, s)}

\* the tier of the first rule matching s, "Moderate" when there is none
FirstRuleTier(s) ==
    IF RulesMatching(s) = {} THEN "Moderate"
    ELSE DifficultyRules[CHOOSE i \in RulesMatching(s) :
                             \A j \in RulesMatching(s) : i <= j].tier

\* a label with the case of every letter swapped
SwapCase(s) ==
    [i \in 1..Len(s) |->
        IF \E k \in 1..26 : LowerCase[k] = s[i]
        THEN UpperCase[CHOOSE k \in 1..26 : LowerCase[k] = s[i]]
        ELSE LowerChar(s[i])]

\* C4: determine_difficulty returns the tier of the first rule, in the order
\* Beginner, Easy, Moderate, Hard, Expert, Extreme, one of whose tokens occurs
\* in the label whatever the case of its letters, Moderate when none does; the
\* case of the label does not change the result; "Kids 1K / 5K Fun Run" is
\* Beginner.
C4_FirstMatchWins ==
    pc = "returned" =>
        /\ ret = FirstRuleTier(lower(arg))
        /\ determine_difficulty(SwapCase(arg)) = ret
        /\ (arg = <<"K","i","d","s"," ","1","K"," ","/"," ","5","K"," ","F","u","n"," ","R","u","n">> => ret = "Beginner")

\* C4, its case: a label written in capitals holding a Beginner token and an
\* Easy token was classified Beginner
C4_Witness ==
    /\ pc = "returned"
    /\ arg # lower(arg)
    /\ {1, 2} \subseteq RulesMatching(lower(arg))
    /\ ret = "Beginner"

\* C5: filter_future_races returns, in their order, exactly the records whose
\* date is empty, or does not parse as month/day/year, or is today or later; a
\* record is dropped if and only if its date parses to a day before today.
C5_Kept(r) ==
    LET ds == Get(r, "date", <<>>) IN
    \/ ds = <<>> \/ ds = None
    \/ ~strptime(ds).ok
    \/ DateGE(strptime(ds).date, today)

C5_FilterKeepsFuture ==
    pc = "returned" =>
        /\ future_races = SelectSeq(all_races, C5_Kept)
        /\ Len(all_races) - Len(future_races)
             = Cardinality({i \in 1..Len(all_races) :
                   /\ "date" \in DOMAIN all_races[i]
                   /\ strptime(all_races[i].date).ok
                   /\ ~DateGE(strptime(all_races[i].date).date, today)})
        /\ \A i \in 1..Len(future_races) :
             Get(future_races[i], "date", <<>>) # <<"0","1","/","0","1","/","2","0","0","0">>
        /\ \A i \in 1..Len(all_races) :
             Get(all_races[i], "date", <<>>)
                 \in {<<>>, <<"n","o","t","-","a","-","d","a","t","e">>, <<"1","2","/","3","1","/","2","0","3","5">>}
               => \E j \in 1..Len(future_races) : future_races[j] = all_races[i]

\* C5, its case: of three records, one dated today was kept, one dated the day
\* before was dropped and one with a date that is no date was kept
C5_Witness ==
    /\ pc = "returned"
    /\ today = <<2026, 11, 3>>
    /\ Len(all_races) = 3
    /\ Get(all_races[1], "date", <<>>) = <<"1","1","/","0","3","/","2","0","2","6">>
    /\ Get(all_races[2], "date", <<>>) = <<"1","1","/","0","2","/","2","0","2","6">>
    /\ Get(all_races[3], "date", <<>>) = <<"0","2","/","3","0","/","2","0","2","4">>
    /\ future_races = <<all_races[1], all_races[3]>>

\* C6: get_city_image returns an image URL and never raises; without a
\* credential it is the fallback URL and no lookup is sent; with one it is the
\* fallback URL when the lookup fails and the first result's URL otherwise.
C6_ImageOrFallback ==
    pc # "get_city_image" =>
        /\ pc = "returned"
        /\ ret \in {FallbackImage} \cup PhotoUrls
        /\ (unsplash_key \in {None, <<>>} => ret = FallbackImage /\ unsplash_calls = 0)
        /\ (unsplash_key \notin {None, <<>>} =>
              ret = IF arg.state \in {"WA", "OR", "CA"} /\ arg.response.kind = "ok"
                    THEN arg.response.url ELSE FallbackImage)

\* C6, its case: with a credential, the lookup was sent and answered with an
\* empty result set, and the fallback URL was returned
C6_Witness ==
    /\ pc = "returned"
    /\ Truthy(unsplash_key)
    /\ unsplash_calls = 1
    /\ arg.response.kind = "empty_results"
    /\ ret = FallbackImage

\* the position of a state code in the order WA, OR, CA
C7_Order(code) == CASE code = "WA" -> 1 [] code = "OR" -> 2 [] code = "CA" -> 3

\* C7: the states are fetched in the order WA, OR, CA; the pages of a state
\* are requested as 1, 2, ... up to the first page that fails or has no races
\* and none after it, no page twice; the end of a state's pages is followed by
\* page 1 of the next state.
C7_Pagination ==
    /\ \A j \in 1..Len(requests) :
         IF j = 1
         THEN requests[j].state = "WA" /\ requests[j].page = 1
         ELSE IF requests[j - 1].races
         THEN /\ requests[j].state = requests[j - 1].state
              /\ requests[j].page = requests[j - 1].page + 1
         ELSE /\ C7_Order(requests[j].state) = C7_Order(requests[j - 1].state) + 1
              /\ requests[j].page = 1
    /\ \A i, j \in 1..Len(requests) :
         i # j => <<requests[i].state, requests[i].page>>
                    # <<requests[j].state, requests[j].page>>
    /\ (pc \in {"filter", "save", "done"} =>
          /\ \A code \in {"WA", "OR", "CA"} :
               \E j \in 1..Len(requests) :
                  requests[j].state = code /\ requests[j].page = 1
          /\ requests[Len(requests)].state = "CA"
          /\ ~requests[Len(requests)].races)

\* C7, its case: a run came to its end in which WA ended on a failed request
\* of its page 2 and OR and CA were fetched after it
C7_Witness ==
    /\ pc = "done"
    /\ "fetch_error" \in log
    /\ Len(requests) = 4
    /\ requests[2] = [state |-> "WA", page |-> 2, races |-> FALSE]
    /\ requests[3] = [state |-> "OR", page |-> 1, races |-> FALSE]

\* the events of the race of the last call that have a name
C8_Named == {k \in 1..Len(CallEvents) :
                "name" \in DOMAIN CallEvents[k] /\ CallEvents[k].name # None}

\* C8: the records of one race carry the same "has child event" value, which
\* is true exactly when the name of one of its events holds, in any case, one
\* of kids, children, family, youth, junior.
C8_KidsFlag ==
    lastCall.called =>
        \A i \in 1..Len(lastCall.recs) :
            /\ lastCall.recs[i].hasKidsRace = lastCall.recs[1].hasKidsRace
            /\ lastCall.recs[i].hasKidsRace
                 = (\E k \in C8_Named :
                      \E w \in {<<"k","i","d","s">>, <<"c","h","i","l","d","r","e","n">>, <<"f","a","m","i","l","y">>,
                                <<"y","o","u","t","h">>, <<"j","u","n","i","o","r">>} :
                          In(w, lower(CallEvents[k].name)))

\* C8, its case: two records of one race, both flagged, the first for an
\* event whose own name is not that of a child event
C8_Witness ==
    /\ lastCall.called
    /\ Len(lastCall.recs) = 2
    /\ lastCall.recs[1].hasKidsRace /\ lastCall.recs[2].hasKidsRace
    /\ CallEvents[1] = Event5k
    /\ CallEvents[2] = EventYouth

\* C9: a failed write is logged and run() comes to its end without raising;
\* an error raised in fetch_all_races leaves run().
C9_SaveFailureIsNotFatal ==
    [][ /\ (pc = "save" =>
              /\ pc' = "done"
              /\ (file'.state # "written" => "save_error" \in log'))
        /\ ((pc = "transform" /\ Head(pending).type = "null") =>
              /\ pc' = "raised"
              /\ "run_failed" \in log'
              /\ file' = file) ]_vars

\* C9, its case: the write failed, the error was logged and the run is done
C9_Witness ==
    /\ pc = "done"
    /\ "save_error" \in log
    /\ file.state # "written"

\* C10: a label holding "15k" or "13.1" is Beginner or Easy, a label holding
\* "26.2" is Beginner, Easy or Moderate, and a label holding "marathon" is
\* never Extreme.
C10_ShadowedTokens ==
    pc = "returned" =>
        /\ (In(<<"1","5","k">>, lower(arg)) \/ In(<<"1","3",".","1">>, lower(arg))
              => ret \in {"Beginner", "Easy"})
        /\ (In(<<"2","6",".","2">>, lower(arg)) => ret \in {"Beginner", "Easy", "Moderate"})
        /\ (In(<<"m","a","r","a","t","h","o","n">>, lower(arg)) => ret # "Extreme")

\* C10, its case: a label holding "marathon" and "ultra" was classified Expert
C10_Witness ==
    /\ pc = "returned"
    /\ In(<<"m","a","r","a","t","h","o","n">>, lower(arg))
    /\ In(<<"u","l","t","r","a">>, lower(arg))
    /\ ret = "Expert"

====
